---- MODULE Spec2Model ----
(***************************************************************************)
(* Redmine -> Azure DevOps migration: the full-batch run of migrate.js     *)
(* (migrateAllIssues) with the target writer (ado-util.js) and the source  *)
(* reader (redmine-util.js) it drives.                                     *)
(*                                                                         *)
(* JavaScript falsy values (null, undefined, 0) are modelled by 0: source  *)
(* ids and target ids are positive integers, so `x || y` and `if (!x)`     *)
(* become tests against 0.                                                 *)
(***************************************************************************)
EXTENDS Integers, Sequences, FiniteSets, TLC

\* ------------------------------------------------------------------ bounds
MaxIssues == 2      \* records in the source listing
MaxId == 3          \* source ids are 1..MaxId
MaxItems == 3       \* parent refs + relations + journals + attachments in the source
MaxCalls == 2       \* calls in a row of a function that is called alone
MaxPages == 3       \* full pages the source can make the listing ask for
MaxInput == 4       \* issues handed to processIssueBatch, and the largest batchSize
MaxDelay == 2       \* delay_ms is 0..MaxDelay, 0 standing for 0 and for a missing value

VARIABLES
    pc,             \* position of the run (phase of migrateAllIssues)
    cfg,            \* field-mapping.yaml: migration_options and relation_mappings
    source,         \* the records the source system holds, in listing order
    offset,         \* getAllIssues: offset, the params.offset of the next page request
    issues,         \* migrateAllIssues: issues (result of getAllIssues)
    detailedIssues, \* migrateAllIssues: detailedIssues
    i,              \* migrateAllIssues: i, the 0-based start of the current batch
    k,              \* position inside the current batch, 1-based
    r,              \* 1-based record index of the detail loop / of migrateRelations
    j,              \* 1-based index of the journal, attachment or relation in turn
    issueIdMap,     \* module-level issueIdMap: source id -> target id
    nextAdoId,      \* the id the target system assigns to the next work item
    persisted,      \* content of migration-mapping.json, <<>> while not written
    failure,        \* what made the run exit with status 1, "none" otherwise
    log,            \* every call to the source, the target and the pacer, in order
    out,            \* the FieldMapper calls made so far: arguments and returned value
    batchSize,      \* processIssueBatch: batchSize
    inFlight,       \* processIssueBatch: the processor calls started and not yet settled
    settled,        \* processIssueBatch: the calls of the batch that resolved, as they did
    results         \* processIssueBatch: results

vars == <<pc, cfg, source, offset, issues, detailedIssues, i, k, r, j,
          issueIdMap, nextAdoId, persisted, failure, log, out,
          batchSize, inFlight, settled, results>>

\* ------------------------------------------------------------- helpers
Min(a, b) == IF a < b THEN a ELSE b

SeqUpTo(S, n) == UNION {[1..m -> S] : m \in 0..n}

\* Map.prototype.get: the value, or undefined (0) for a missing key
MapGet(m, key) == IF key \in DOMAIN m THEN m[key] ELSE 0

\* faulty variant: key and value change places
MapSetSwapped(m, key, val) == [x \in (DOMAIN m) \cup {val} |-> IF x = val THEN key ELSE m[x]]

\* Map.prototype.set: inserts, or overwrites the value of a present key
MapSet(m, key, val) == [x \in (DOMAIN m) \cup {key} |-> IF x = key THEN val ELSE m[x]]

\* ------------------------------------------------------------- FieldMapper
ShouldMigrateComments(c) == c.migrate_comments # "false"
ShouldMigrateAttachments(c) == c.migrate_attachments # "false"
ShouldMigrateRelations(c) == c.migrate_relations # "false"

\* faulty variant: the hierarchy links follow the option of the relations
ShouldMigrateSubtasksAsRelations(c) == c.migrate_relations # "false"

ShouldMigrateSubtasks(c) == c.migrate_subtasks # "false"

\* faulty variant: the configured value is taken as it is
GetDelayMsNoDefault(c) == c.delay_ms

GetDelayMs(c) == IF c.delay_ms # 0 THEN c.delay_ms ELSE 100
GetBatchSize(c) == IF c.batch_size # 0 THEN c.batch_size ELSE 50

MapRelationType(c, t) ==
    IF t \in DOMAIN c.relation_mappings THEN c.relation_mappings[t]
    ELSE "System.LinkTypes.Related"

\* a table of the configuration read at a key: `table?.[key]`, with <<>> for a
\* missing table; an entry without a value counts as no entry
TableAt(tables, key) == IF key \in DOMAIN tables THEN tables[key] ELSE <<>>

\* faulty variant: the default table is asked before the table of the type
MapStatusDefaultFirst(c, redmineStatus, workItemType) ==
    LET workItemMappings == TableAt(c.status_mappings, workItemType)
        defaultMappings == TableAt(c.status_mappings, "default")
    IN IF redmineStatus \in DOMAIN defaultMappings THEN defaultMappings[redmineStatus]
       ELSE IF redmineStatus \in DOMAIN workItemMappings THEN workItemMappings[redmineStatus]
       ELSE "New"

MapStatus(c, redmineStatus, workItemType) ==
    LET workItemMappings == TableAt(c.status_mappings, workItemType)
        defaultMappings == TableAt(c.status_mappings, "default")
    IN IF redmineStatus \in DOMAIN workItemMappings THEN workItemMappings[redmineStatus]
       ELSE IF redmineStatus \in DOMAIN defaultMappings THEN defaultMappings[redmineStatus]
       ELSE "New"

\* mapWorkItemType: the entry of the tracker, or the default entry, or "Issue"
MapWorkItemType(c, redmineTracker) ==
    IF redmineTracker \in DOMAIN c.work_item_types THEN c.work_item_types[redmineTracker]
    ELSE IF "default" \in DOMAIN c.work_item_types THEN c.work_item_types["default"]
    ELSE "Issue"

\* mapPriority: the entry of the priority, or the default entry, or 3
MapPriority(c, redminePriority) ==
    IF redminePriority \in DOMAIN c.priority_mappings THEN c.priority_mappings[redminePriority]
    ELSE IF "default" \in DOMAIN c.priority_mappings THEN c.priority_mappings["default"]
    ELSE 3

\* `if (cond) fields[key] = val`
PutIf(cond, fields, key, val) == IF cond THEN MapSet(fields, key, val) ELSE fields

\* the loop over issue.custom_fields, from the n-th on: a mapped name with a
\* non-empty value is copied to the field it is mapped to
RECURSIVE CopyCustomFields(_, _, _, _)
CopyCustomFields(c, fields, customFields, n) ==
    IF n > Len(customFields) THEN fields
    ELSE LET customField == customFields[n]
             mapped == customField.name \in DOMAIN c.custom_field_mappings
         IN CopyCustomFields(c,
                PutIf(mapped /\ customField.value # "", fields,
                      IF mapped THEN c.custom_field_mappings[customField.name] ELSE "",
                      customField.value),
                customFields, n + 1)

\* the description: the provenance banner, the link banner, the source text
DescriptionOf(c, issue) ==
    <<IF c.preserve_redmine_id THEN issue.id ELSE 0,
      IF c.add_redmine_link /\ issue.id # 0 THEN issue.id ELSE 0,
      issue.description>>

\* mapRedmineIssueToAdoFields. In an issue "" is a missing or empty text and -1 a
\* missing number (undefined or null).
MapRedmineIssueToAdoFields(c, issue) ==
    LET workItemType == MapWorkItemType(c, IF issue.tracker # "" THEN issue.tracker ELSE "Task")
        f1 == MapSet(<<>>, "System.Title",
                     IF issue.subject # "" THEN issue.subject ELSE "Untitled")
        f2 == MapSet(f1, "System.Description", DescriptionOf(c, issue))
        f3 == PutIf(issue.status # "", f2, "System.State",
                    MapStatus(c, issue.status, workItemType))
        f4 == PutIf(issue.priority # "", f3, "Microsoft.VSTS.Common.Priority",
                    MapPriority(c, issue.priority))
        f5 == PutIf(issue.assigned_to # "", f4, "System.AssignedTo", issue.assigned_to)
        f6 == PutIf(issue.start_date # "", f5, "Microsoft.VSTS.Scheduling.StartDate",
                    issue.start_date)
        f7 == PutIf(issue.due_date # "", f6, "Microsoft.VSTS.Scheduling.DueDate",
                    issue.due_date)
        f8 == PutIf(issue.created_on # "", f7, "System.CreatedDate", issue.created_on)
        f9 == PutIf(issue.updated_on # "", f8, "System.ChangedDate", issue.updated_on)
        f10 == PutIf(issue.closed_on # "", f9, "Microsoft.VSTS.Common.ClosedDate",
                     issue.closed_on)
        f11 == PutIf(issue.estimated_hours \notin {-1, 0}, f10,
                     "Microsoft.VSTS.Scheduling.OriginalEstimate", issue.estimated_hours)
        f12 == PutIf(issue.done_ratio # -1, f11,
                     "Microsoft.VSTS.Scheduling.CompletedWork", issue.done_ratio)
    IN [workItemType |-> workItemType,
        fields |-> CopyCustomFields(c, f12, issue.custom_fields, 1)]

\* ------------------------------------------------------------- RedmineUtil
\* RedmineUtil.delay(ms): setTimeout(resolve, ms || 50)
RedmineDelay(ms) == IF ms # 0 THEN ms ELSE 50

GetParentId(issue) == issue.parent

\* formatJournalAsComment throws (RangeError of toISOString, TypeError on a
\* null entry) exactly for the journals recorded as not formattable
FormatThrows(journal) == ~journal

\* ------------------------------------------------------------- AdoUtil
\* faulty variant: no test for equal ids
CreateLinkUnguarded(from, to, netOk) == [sent |-> TRUE, ok |-> netOk]

\* createLink: [sent |-> a PATCH went to the target, ok |-> the returned value]
CreateLink(from, to, netOk) ==
    IF from = to THEN [sent |-> FALSE, ok |-> FALSE]
    ELSE [sent |-> TRUE, ok |-> netOk]

\* ------------------------------------------------------------- the log
Entry(op, idx, sub, id, from, to, kind, sent, ok) ==
    [op |-> op, idx |-> idx, sub |-> sub, id |-> id, from |-> from, to |-> to,
     kind |-> kind, sent |-> sent, ok |-> ok]

DelayEntry == Entry("delay", 0, 0, 0, 0, GetDelayMs(cfg), "", FALSE, TRUE)

HierarchyReverse == "System.LinkTypes.Hierarchy-Reverse"

\* ------------------------------------------------------------- inputs
RelationTypes == {"relates", "blocks"}

\* relations listed on record id: the record is one endpoint, the other differs
RelationsOf(id) ==
    {[issue_id |-> a, issue_to_id |-> b, relation_type |-> t] :
        a \in 1..MaxId, b \in 1..MaxId, t \in RelationTypes}
    \ {x \in [issue_id : 1..MaxId, issue_to_id : 1..MaxId, relation_type : RelationTypes] :
        x.issue_id = x.issue_to_id \/ (x.issue_id # id /\ x.issue_to_id # id)}

Size(rec) ==
    (IF rec.parent # 0 THEN 1 ELSE 0) + Len(rec.relations)
    + Len(rec.journals) + Len(rec.attachments)

\* how the MaxItems items of a record split into parent, relations, journals, attachments
Splits ==
    {s \in [p : 0..1, r : 0..MaxItems, j : 0..MaxItems, a : 0..MaxItems] :
        s.p + s.r + s.j + s.a <= MaxItems}

\* the records with source id `id` that hold at most budget items
RecordsOf(id, budget) ==
    UNION {[id : {id},
            parent : IF s.p = 0 THEN {0} ELSE (1..MaxId) \ {id},
            relations : [1..s.r -> RelationsOf(id)],
            journals : [1..s.j -> BOOLEAN],
            attachments : {[x \in 1..s.a |-> x]}] :
           s \in {t \in Splits : t.p + t.r + t.j + t.a <= budget}}

\* listings of at most n records holding at most budget items in all; source ids
\* are named in order of first appearance (fresh is the next unused one), and a
\* listing may name the same id twice (a record that moved between two pages)
RECURSIVE SourcesOf(_, _, _)
SourcesOf(n, budget, fresh) ==
    IF n = 0 THEN {<<>>}
    ELSE {<<>>} \cup
         UNION {{<<rec>> \o s :
                    s \in SourcesOf(n - 1, budget - Size(rec),
                                    IF rec.id = fresh THEN Min(fresh + 1, MaxId) ELSE fresh)} :
                rec \in UNION {RecordsOf(id, budget) : id \in 1..fresh}}

\* short listings of records rich in items, or longer listings of plain records
RichSources(n) == SourcesOf(n, MaxItems, 1)
WideSources(n) == SourcesOf(n + 1, MaxItems - 2, 1)

RelationMappings == [t \in {"blocks"} |-> "System.LinkTypes.Dependency-Forward"]

\* field-mapping.yaml with every migration option left out
DefaultConfigs ==
    [migrate_comments : {"absent"}, migrate_attachments : {"absent"},
     migrate_relations : {"absent"}, migrate_subtasks : {"absent"},
     delay_ms : {0}, batch_size : {0}, relation_mappings : {RelationMappings}]

\* the same with batch_size: 1, so that a listing spans several batches
BatchedConfigs ==
    [migrate_comments : {"absent"}, migrate_attachments : {"absent"},
     migrate_relations : {"absent"}, migrate_subtasks : {"absent"},
     delay_ms : {0}, batch_size : {1}, relation_mappings : {RelationMappings}]

\* the same with every batch_size from nothing (0) to the longest listing
BatchSizeConfigs ==
    [migrate_comments : {"absent"}, migrate_attachments : {"absent"},
     migrate_relations : {"absent"}, migrate_subtasks : {"absent"},
     delay_ms : {0}, batch_size : 0..(MaxIssues + 1), relation_mappings : {RelationMappings}]

\* the default options with every delay_ms
DelayConfigs ==
    [migrate_comments : {"absent"}, migrate_attachments : {"absent"},
     migrate_relations : {"absent"}, migrate_subtasks : {"absent"},
     delay_ms : 0..MaxDelay, batch_size : {0}, relation_mappings : {RelationMappings}]

\* what field-mapping.yaml may say of a migration option: nothing, true or false
ToggleValues == {"absent", "true", "false"}

\* every setting of the four migration options
ToggleConfigs ==
    [migrate_comments : ToggleValues, migrate_attachments : ToggleValues,
     migrate_relations : ToggleValues, migrate_subtasks : ToggleValues,
     delay_ms : {0}, batch_size : {0}, relation_mappings : {RelationMappings}]

\* a record with a journal entry and an attachment, and a child of it that lists
\* one relation: something for every migration option to act on
ToggleSources ==
    {<<[id |-> 1, parent |-> 0, relations |-> <<>>, journals |-> <<TRUE>>,
        attachments |-> <<1>>],
       [id |-> 2, parent |-> 1, relations |-> <<rel>>, journals |-> <<>>,
        attachments |-> <<>>]>> : rel \in RelationsOf(2)}

InitWith(configs, sources) ==
    /\ pc = "Idle"
    /\ cfg \in configs
    /\ source \in sources
    /\ offset = 0
    /\ issues = <<>>
    /\ detailedIssues = <<>>
    /\ i = 0
    /\ k = 1
    /\ r = 1
    /\ j = 1
    /\ issueIdMap = <<>>
    /\ nextAdoId = 501
    /\ persisted = <<>>
    /\ failure = "none"
    /\ log = <<>>
    /\ out = <<>>
    /\ batchSize = 0
    /\ inFlight = {}
    /\ settled = <<>>
    /\ results = <<>>

Init ==
    \/ InitWith(DefaultConfigs, RichSources(MaxIssues) \cup WideSources(MaxIssues))
    \/ InitWith(BatchedConfigs, WideSources(MaxIssues))

\* ------------------------------------------------------------- control flow
N == Len(detailedIssues)

\* faulty variant: the records are taken from the end of the list
CurFromEnd == detailedIssues[N + 1 - (i + k)]

\* the record migrateIssue is working on: detailedIssues.slice(i, i + batchSize)[k]
Cur == detailedIssues[i + k]

Ctl(p, bi, bk, br, bj) == [pc |-> p, i |-> bi, k |-> bk, r |-> br, j |-> bj]

Goto(c, lg) ==
    /\ pc' = c.pc
    /\ i' = c.i
    /\ k' = c.k
    /\ r' = c.r
    /\ j' = c.j
    /\ log' = lg

\* migrateRelations(detailedIssues) starts: its loop body, or straight to the
\* mapping file when there is no record
EnterRelations(n) ==
    IF n = 0 THEN Ctl("Persisting", i, k, 1, 1) ELSE Ctl("ResolvingParent", i, k, 1, 1)

\* the end of one pass of `for (const issue of redmineIssues)`
NextRelationIssue ==
    IF r < N THEN Ctl("ResolvingParent", i, k, r + 1, 1) ELSE Ctl("Persisting", i, k, r, 1)

\* faulty variant: the outer batch loop stops after its first batch
AfterIssueFirstBatchOnly ==
    IF k < Min(GetBatchSize(cfg), N - i) THEN Ctl("CreatingNodes", i, k + 1, r, 1)
    ELSE EnterRelations(N)

\* migrateIssue returned and the delay after it is over: the next record of the
\* batch, the next batch, or the relation phase
AfterIssue ==
    IF k < Min(GetBatchSize(cfg), N - i) THEN Ctl("CreatingNodes", i, k + 1, r, 1)
    ELSE IF i + GetBatchSize(cfg) < N THEN Ctl("CreatingNodes", i + GetBatchSize(cfg), 1, r, 1)
    ELSE EnterRelations(N)

\* faulty variant: after an exception the run still writes the mapping file
UncaughtStillPersists == Ctl("Persisting", i, k, r, 1)

\* an exception nobody catches reaches main().catch: process.exit(1)
Uncaught == Ctl("Failed", i, k, r, j)

WantComments(issue) == ShouldMigrateComments(cfg) /\ Len(issue.journals) > 0
WantAttachments(issue) == ShouldMigrateAttachments(cfg) /\ Len(issue.attachments) > 0

\* ------------------------------------------------------------- actions
\* main -> migrateAllIssues -> getAllIssues: the listing fits one page of 100; an
\* error on the page is caught inside getAllIssues, which then returns []
GetAllIssues ==
    /\ pc = "Idle"
    /\ \E ok \in BOOLEAN :
        LET got == IF ok THEN source ELSE <<>>
            lg == Append(log, Entry("getAllIssues", 0, 0, 0, 0, Len(got), "", FALSE, ok))
        IN /\ issues' = got
           /\ IF Len(got) = 0
              THEN Goto(Ctl("Done", i, k, r, j), lg)
              ELSE Goto(Ctl("FetchingDetails", i, k, 1, j), lg)
    /\ UNCHANGED <<batchSize, inFlight, settled, results, out, offset, cfg, source, detailedIssues, issueIdMap, nextAdoId, persisted, failure>>

\* faulty variant: the listed record is kept when its details are absent
GetIssueDetailsKeepsAbsent ==
    /\ pc = "FetchingDetails"
    /\ \E ok \in BOOLEAN :
        LET det == Append(detailedIssues, issues[r])
            lg == Append(Append(log,
                     Entry("getIssueDetails", r, 0, issues[r].id, 0, 0, "", FALSE, ok)),
                     DelayEntry)
        IN /\ detailedIssues' = det
           /\ IF r < Len(issues)
              THEN Goto(Ctl("FetchingDetails", i, k, r + 1, j), lg)
              ELSE Goto(Ctl("CreatingNodes", 0, 1, 1, 1), lg)
    /\ UNCHANGED <<batchSize, inFlight, settled, results, out, offset, cfg, source, issues, issueIdMap, nextAdoId, persisted, failure>>

\* one pass of the detail loop: getIssueDetails(issue.id), push when present, delay
GetIssueDetails ==
    /\ pc = "FetchingDetails"
    /\ \E ok \in BOOLEAN :
        LET det == IF ok THEN Append(detailedIssues, issues[r]) ELSE detailedIssues
            lg == Append(Append(log,
                     Entry("getIssueDetails", r, 0, issues[r].id, 0, 0, "", FALSE, ok)),
                     DelayEntry)
        IN /\ detailedIssues' = det
           /\ IF r < Len(issues)
              THEN Goto(Ctl("FetchingDetails", i, k, r + 1, j), lg)
              ELSE IF Len(det) = 0
                   THEN Goto(EnterRelations(0), lg)
                   ELSE Goto(Ctl("CreatingNodes", 0, 1, 1, 1), lg)
    /\ UNCHANGED <<batchSize, inFlight, settled, results, out, offset, cfg, source, issues, issueIdMap, nextAdoId, persisted, failure>>

\* migrateIssue up to its first extra: createWorkItem, and issueIdMap.set on success
CreateNode ==
    /\ pc = "CreatingNodes"
    /\ \E ok \in BOOLEAN :
        LET id == Cur.id
            lg == Append(log, Entry("createWorkItem", i + k, 0, id, 0,
                                    IF ok THEN nextAdoId ELSE 0, "", TRUE, ok))
        IN IF ~ok
           THEN /\ Goto(AfterIssue, Append(lg, DelayEntry))
                /\ UNCHANGED <<issueIdMap, nextAdoId>>
           ELSE /\ issueIdMap' = MapSet(issueIdMap, id, nextAdoId)
                /\ nextAdoId' = nextAdoId + 1
                /\ IF WantComments(Cur) THEN Goto(Ctl("MigratingComments", i, k, r, 1), lg)
                   ELSE IF WantAttachments(Cur) THEN Goto(Ctl("MigratingAttachments", i, k, r, 1), lg)
                   ELSE Goto(AfterIssue, Append(lg, DelayEntry))
    /\ UNCHANGED <<batchSize, inFlight, settled, results, out, offset, cfg, source, issues, detailedIssues, persisted, failure>>

\* one pass of the loop of migrateComments: format, addComment, delay. An
\* exception of formatJournalAsComment is caught nowhere below main().catch.
MigrateComment ==
    /\ pc = "MigratingComments"
    /\ IF FormatThrows(Cur.journals[j])
       THEN /\ Goto(Uncaught,
                    Append(log, Entry("formatJournalAsComment", i + k, j, Cur.id,
                                      issueIdMap[Cur.id], 0, "", FALSE, FALSE)))
            /\ failure' = "formatJournalAsComment"
       ELSE /\ \E ok \in BOOLEAN :
                LET lg == Append(Append(log,
                             Entry("addComment", i + k, j, Cur.id, issueIdMap[Cur.id], 0, "",
                                   TRUE, ok)), DelayEntry)
                IN IF j < Len(Cur.journals) THEN Goto(Ctl("MigratingComments", i, k, r, j + 1), lg)
                   ELSE IF WantAttachments(Cur)
                        THEN Goto(Ctl("MigratingAttachments", i, k, r, 1), lg)
                        ELSE Goto(AfterIssue, Append(lg, DelayEntry))
            /\ UNCHANGED failure
    /\ UNCHANGED <<batchSize, inFlight, settled, results, out, offset, cfg, source, issues, detailedIssues, issueIdMap, nextAdoId, persisted>>

\* what getAttachmentContent returns: null after an error, or response.data, the
\* Buffer of the body, which has no byte for an empty file
Downloads == {"absent", "empty", "content"}

\* `if (fileContent)`: null is falsy, a Buffer is truthy whatever its length
HasContent(fileContent) == fileContent # "absent"

\* one pass of the loop of migrateAttachments: download, upload when there is
\* content, attach when the upload gave a url, delay
MigrateAttachment ==
    /\ pc = "MigratingAttachments"
    /\ \E fileContent \in Downloads, up \in BOOLEAN, att \in BOOLEAN :
        /\ (~HasContent(fileContent) => ~up) /\ (~up => ~att)
        /\ LET wi == issueIdMap[Cur.id]
               l1 == Append(log, Entry("getAttachmentContent", i + k, j, Cur.id, wi, 0,
                                       fileContent, FALSE, fileContent # "absent"))
               l2 == IF HasContent(fileContent)
                     THEN Append(l1, Entry("uploadAttachment", i + k, j, Cur.id, wi, 0, "",
                                           TRUE, up))
                     ELSE l1
               l3 == IF HasContent(fileContent) /\ up
                     THEN Append(l2, Entry("attachFileToWorkItem", i + k, j, Cur.id, wi, 0, "",
                                           TRUE, att))
                     ELSE l2
               lg == Append(l3, DelayEntry)
           IN IF j < Len(Cur.attachments)
              THEN Goto(Ctl("MigratingAttachments", i, k, r, j + 1), lg)
              ELSE Goto(AfterIssue, Append(lg, DelayEntry))
    /\ UNCHANGED <<batchSize, inFlight, settled, results, out, offset, cfg, source, issues, detailedIssues, issueIdMap, nextAdoId, persisted, failure>>

\* faulty variant: the record is never skipped
NotMigratedNever(sourceAdoId) == FALSE

\* `if (!sourceAdoId) continue`
NotMigrated(sourceAdoId) == sourceAdoId = 0

\* faulty variant: the hierarchy link goes from the parent to the child
HierarchyLinkArgsSwapped(sourceAdoId, parentAdoId) == [from |-> parentAdoId, to |-> sourceAdoId]

\* the work items the hierarchy link is created between
HierarchyLinkArgs(sourceAdoId, parentAdoId) == [from |-> sourceAdoId, to |-> parentAdoId]

\* migrateRelations, one record: the lookup of its own target id and the
\* hierarchy link to its parent
ResolveParent ==
    /\ pc = "ResolvingParent"
    /\ LET issue == detailedIssues[r]
           sourceAdoId == MapGet(issueIdMap, issue.id)
           parentId == GetParentId(issue)
           parentAdoId == MapGet(issueIdMap, parentId)
           after == IF ShouldMigrateRelations(cfg) /\ Len(issue.relations) > 0
                    THEN Ctl("ResolvingRelations", i, k, r, 1)
                    ELSE NextRelationIssue
       IN IF NotMigrated(sourceAdoId) THEN Goto(NextRelationIssue, log)
          ELSE IF ShouldMigrateSubtasks(cfg) /\ parentId # 0 /\ parentAdoId # 0
               THEN \E netOk \in BOOLEAN :
                       LET ends == HierarchyLinkArgs(sourceAdoId, parentAdoId)
                           res == CreateLink(ends.from, ends.to, netOk)
                       IN (res.sent \/ ~netOk) /\
                          Goto(after, Append(Append(log,
                              Entry("createLink", r, 0, issue.id, ends.from, ends.to,
                                    HierarchyReverse, res.sent, res.ok)), DelayEntry))
               ELSE Goto(after, log)
    /\ UNCHANGED <<batchSize, inFlight, settled, results, out, offset, cfg, source, issues, detailedIssues, issueIdMap, nextAdoId, persisted, failure>>

\* faulty variant: a relation is resolved to its issue_to_id
TargetRedmineIdTo(relation) == relation.issue_to_id

\* the id a relation is resolved to: `relation.issue_id || relation.issue_to_id`
TargetRedmineId(relation) ==
    IF relation.issue_id # 0 THEN relation.issue_id ELSE relation.issue_to_id

\* faulty variant: the relations of a record are taken last first
RelationAtFromEnd(issue, n) == issue.relations[Len(issue.relations) + 1 - n]

\* `for (const relation of issue.relations)`: the relation of the n-th pass
RelationAt(issue, n) == issue.relations[n]

\* migrateRelations, one relation of the record
ResolveRelation ==
    /\ pc = "ResolvingRelations"
    /\ LET issue == detailedIssues[r]
           sourceAdoId == MapGet(issueIdMap, issue.id)
           relation == RelationAt(issue, j)
           targetRedmineId == TargetRedmineId(relation)
           targetAdoId == MapGet(issueIdMap, targetRedmineId)
           after == IF j < Len(issue.relations) THEN Ctl("ResolvingRelations", i, k, r, j + 1)
                    ELSE NextRelationIssue
       IN IF targetAdoId # 0
          THEN \E netOk \in BOOLEAN :
                  LET res == CreateLink(sourceAdoId, targetAdoId, netOk)
                  IN (res.sent \/ ~netOk) /\
                     Goto(after, Append(Append(log,
                         Entry("createLink", r, j, issue.id, sourceAdoId, targetAdoId,
                               MapRelationType(cfg, relation.relation_type), res.sent, res.ok)),
                         DelayEntry))
          ELSE Goto(after, log)
    /\ UNCHANGED <<batchSize, inFlight, settled, results, out, offset, cfg, source, issues, detailedIssues, issueIdMap, nextAdoId, persisted, failure>>

\* faulty variant: the identity map is emptied once it is written out
PersistClearsMap ==
    /\ pc = "Persisting"
    /\ \E ok \in BOOLEAN :
        /\ persisted' = IF ok THEN <<issueIdMap>> ELSE persisted
        /\ failure' = IF ok THEN failure ELSE "writeFileSync"
        /\ issueIdMap' = <<>>
        /\ Goto(Ctl(IF ok THEN "Done" ELSE "Failed", i, k, r, j),
                Append(log, Entry("writeFileSync", 0, 0, 0, 0, 0, "", FALSE, ok)))
    /\ UNCHANGED <<batchSize, inFlight, settled, results, out, offset, cfg, source, issues, detailedIssues, nextAdoId>>

\* fs.writeFileSync("migration-mapping.json", Object.fromEntries(issueIdMap)); an
\* exception of the write reaches main().catch
Persist ==
    /\ pc = "Persisting"
    /\ \E ok \in BOOLEAN :
        /\ persisted' = IF ok THEN <<issueIdMap>> ELSE persisted
        /\ failure' = IF ok THEN failure ELSE "writeFileSync"
        /\ Goto(IF ok THEN Ctl("Done", i, k, r, j) ELSE Uncaught,
                Append(log, Entry("writeFileSync", 0, 0, 0, 0, 0, "", FALSE, ok)))
    /\ UNCHANGED <<batchSize, inFlight, settled, results, out, offset, cfg, source, issues, detailedIssues, issueIdMap, nextAdoId>>

Next ==
    \/ GetAllIssues
    \/ GetIssueDetails
    \/ CreateNode
    \/ MigrateComment
    \/ MigrateAttachment
    \/ ResolveParent
    \/ ResolveRelation
    \/ Persist

Spec == Init /\ [][Next]_vars

\* ------------------------------------------------------------- the run under every setting of the options
InitToggles == InitWith(ToggleConfigs, ToggleSources)

SpecToggles == InitToggles /\ [][Next]_vars

\* ------------------------------------------------------------- the run under every batch size
InitBatches == InitWith(BatchSizeConfigs, WideSources(MaxIssues))

SpecBatches == InitBatches /\ [][Next]_vars

\* ------------------------------------------------------------- the run under every delay
InitDelays == InitWith(DelayConfigs, ToggleSources)

SpecDelays == InitDelays /\ [][Next]_vars

\* ------------------------------------------------------------- mapStatus alone
\* statuses of the source, work item types and states of the target
Statuses == {"Open", "Resolved"}
WorkItemTypes == {"Task", "Bug"}
States == {"Active", "Closed"}

\* the tables status -> state, an unmapped status being outside the domain
StatusTables == UNION {[d -> States] : d \in SUBSET Statuses}

\* status_mappings: a table for some of the types, and maybe a default table
StatusMappings == UNION {[d -> StatusTables] : d \in SUBSET (WorkItemTypes \cup {"default"})}

StatusConfigs == [status_mappings : StatusMappings]

InitStatus ==
    /\ pc = "Mapping"
    /\ cfg \in StatusConfigs
    /\ source = <<>>
    /\ offset = 0
    /\ issues = <<>>
    /\ detailedIssues = <<>>
    /\ i = 0
    /\ k = 1
    /\ r = 1
    /\ j = 1
    /\ issueIdMap = <<>>
    /\ nextAdoId = 501
    /\ persisted = <<>>
    /\ failure = "none"
    /\ log = <<>>
    /\ out = <<>>
    /\ batchSize = 0
    /\ inFlight = {}
    /\ settled = <<>>
    /\ results = <<>>

\* fieldMapper.mapStatus(redmineStatus, workItemType) on any status and type
CallMapStatus ==
    /\ pc = "Mapping"
    /\ Len(out) < MaxCalls
    /\ \E redmineStatus \in Statuses, workItemType \in WorkItemTypes :
          out' = Append(out, [status |-> redmineStatus, type |-> workItemType,
                              returned |-> MapStatus(cfg, redmineStatus, workItemType)])
    /\ UNCHANGED <<batchSize, inFlight, settled, results, pc, cfg, source, offset, issues, detailedIssues, i, k, r, j,
                   issueIdMap, nextAdoId, persisted, failure, log>>

NextStatus == CallMapStatus

SpecStatus == InitStatus /\ [][NextStatus]_vars

\* ------------------------------------------------------------- mapRedmineIssueToAdoFields alone
\* field-mapping.yaml with its tables, with and without the two banners
MapperConfigs ==
    [work_item_types : {[t \in {"Bug", "default"} |-> IF t = "Bug" THEN "Bug" ELSE "Task"]},
     status_mappings : {[t \in {"default"} |-> [st \in {"Open"} |-> "Active"]]},
     priority_mappings : {[p \in {"High"} |-> 1]},
     custom_field_mappings : {[n \in {"Team"} |-> "Custom.Team"]},
     preserve_redmine_id : BOOLEAN,
     add_redmine_link : BOOLEAN]

\* a text that is there or not (""), a number that is there, 0, or not (-1)
Texts(t) == {"", t}
Numbers(n) == {-1, 0, n}

\* the issues, as far as the mapper reads them
MapperIssues ==
    [id : {1}, subject : Texts("Fix login"), description : Texts("Steps"),
     tracker : Texts("Bug"), status : Texts("Open"), priority : Texts("High"),
     assigned_to : Texts("Ann"), start_date : Texts("2024-01-01"),
     due_date : Texts("2024-02-01"), created_on : Texts("2023-12-01"),
     updated_on : Texts("2024-01-15"), closed_on : Texts("2024-01-20"),
     estimated_hours : Numbers(8), done_ratio : Numbers(50),
     custom_fields : {<<>>} \cup {<<[name |-> "Team", value |-> v]>> : v \in Texts("Core")}]

InitFields ==
    /\ pc = "Mapping"
    /\ cfg \in MapperConfigs
    /\ source \in {<<issue>> : issue \in MapperIssues}
    /\ offset = 0
    /\ issues = <<>>
    /\ detailedIssues = <<>>
    /\ i = 0
    /\ k = 1
    /\ r = 1
    /\ j = 1
    /\ issueIdMap = <<>>
    /\ nextAdoId = 501
    /\ persisted = <<>>
    /\ failure = "none"
    /\ log = <<>>
    /\ out = <<>>
    /\ batchSize = 0
    /\ inFlight = {}
    /\ settled = <<>>
    /\ results = <<>>

\* faulty variant: the default title is written into the issue
CallMapFieldsDefaultsIssue ==
    /\ pc = "Mapping"
    /\ Len(out) < MaxCalls
    /\ out' = Append(out, [issue |-> source[1], config |-> cfg,
                           returned |-> MapRedmineIssueToAdoFields(cfg, source[1])])
    /\ source' = <<[source[1] EXCEPT !.subject = IF @ = "" THEN "Untitled" ELSE @]>>
    /\ UNCHANGED <<batchSize, inFlight, settled, results, pc, cfg, offset, issues, detailedIssues, i, k, r, j,
                   issueIdMap, nextAdoId, persisted, failure, log>>

\* fieldMapper.mapRedmineIssueToAdoFields(issue), called again and again on the
\* same issue; it assigns to nothing but its own locals
CallMapFields ==
    /\ pc = "Mapping"
    /\ Len(out) < MaxCalls
    /\ out' = Append(out, [issue |-> source[1], config |-> cfg,
                           returned |-> MapRedmineIssueToAdoFields(cfg, source[1])])
    /\ UNCHANGED <<batchSize, inFlight, settled, results, pc, cfg, source, offset, issues, detailedIssues, i, k, r, j,
                   issueIdMap, nextAdoId, persisted, failure, log>>

NextFields == CallMapFields

SpecFields == InitFields /\ [][NextFields]_vars

\* ------------------------------------------------------------- processIssueBatch alone
InitProcess ==
    /\ pc = "Batching"
    /\ cfg \in DefaultConfigs
    /\ source = <<>>
    /\ offset = 0
    /\ issues \in {[x \in 1..n |-> x] : n \in 0..MaxInput}
    /\ detailedIssues = <<>>
    /\ i = 0
    /\ k = 1
    /\ r = 1
    /\ j = 1
    /\ issueIdMap = <<>>
    /\ nextAdoId = 501
    /\ persisted = <<>>
    /\ failure = "none"
    /\ log = <<>>
    /\ out = <<>>
    /\ batchSize \in 1..MaxInput
    /\ inFlight = {}
    /\ settled = <<>>
    /\ results = <<>>

\* the log entries of batch.map(issue => processor(issue)) on issues[lo..hi]:
\* the calls are started one after the other, none awaited
RECURSIVE StartEntries(_, _)
StartEntries(lo, hi) ==
    IF lo > hi THEN <<>>
    ELSE <<Entry("processor", lo, 0, issues[lo], 0, 0, "", FALSE, TRUE)>>
         \o StartEntries(lo + 1, hi)

\* the loop test, and the start of every call of the batch issues.slice(i, i + batchSize)
StartBatch ==
    /\ pc = "Batching"
    /\ IF i < Len(issues)
       THEN /\ inFlight' = (i + 1)..Min(i + batchSize, Len(issues))
            /\ log' = log \o StartEntries(i + 1, Min(i + batchSize, Len(issues)))
            /\ pc' = "Awaiting"
       ELSE /\ pc' = "Returned"
            /\ UNCHANGED <<inFlight, log>>
    /\ UNCHANGED <<batchSize, settled, results, out, offset, cfg, source, issues,
                   detailedIssues, i, k, r, j, issueIdMap, nextAdoId, persisted, failure>>

\* one processor call settles: it resolves with a value (0 for null), or it
\* rejects, and then Promise.all rejects and processIssueBatch throws while the
\* other calls of the batch are still running
Settle ==
    /\ pc \in {"Awaiting", "Thrown"}
    /\ \E x \in inFlight :
          /\ inFlight' = inFlight \ {x}
          /\ \/ \E value \in {0, 1000 + issues[x]} :
                   /\ settled' = Append(settled, [idx |-> x, value |-> value])
                   /\ log' = Append(log, Entry("settled", x, 0, issues[x], 0, value, "",
                                               FALSE, TRUE))
                   /\ pc' = pc
             \/ /\ settled' = settled
                /\ log' = Append(log, Entry("settled", x, 0, issues[x], 0, 0, "",
                                            FALSE, FALSE))
                /\ pc' = "Thrown"
    /\ UNCHANGED <<batchSize, results, out, offset, cfg, source, issues,
                   detailedIssues, i, k, r, j, issueIdMap, nextAdoId, persisted, failure>>

\* faulty variant: the values in the order the calls resolved
BatchResultsAsSettled(done, lo, hi) == [n \in 1..Len(done) |-> done[n].value]

\* what Promise.all resolves with: the values in the order of the calls
BatchResults(done, lo, hi) ==
    [n \in 1..(hi - lo + 1) |->
        (CHOOSE d \in {done[m] : m \in 1..Len(done)} : d.idx = lo + n - 1).value]

\* every call of the batch resolved: results.push(...batchResults), the
\* delay(50), and i += batchSize
CollectBatch ==
    /\ pc = "Awaiting"
    /\ inFlight = {}
    /\ results' = results \o BatchResults(settled, i + 1, Min(i + batchSize, Len(issues)))
    /\ settled' = <<>>
    /\ log' = Append(log, Entry("delay", 0, 0, 0, 0, RedmineDelay(50), "", FALSE, TRUE))
    /\ i' = i + batchSize
    /\ pc' = "Batching"
    /\ UNCHANGED <<batchSize, inFlight, out, offset, cfg, source, issues,
                   detailedIssues, k, r, j, issueIdMap, nextAdoId, persisted, failure>>

NextProcess ==
    \/ StartBatch
    \/ Settle
    \/ CollectBatch

SpecProcess == InitProcess /\ [][NextProcess]_vars

\* ------------------------------------------------------------- getAllIssues alone
\* params.limit
PageLimit == 100

\* how many records a page can hold: none, one, one short of the limit, the limit
PageLengths == {0, 1, PageLimit - 1, PageLimit}

\* the total_count a page can report: around each multiple of the limit
Totals == {t \in 0..(MaxPages * PageLimit) : t % PageLimit \in {0, 1, PageLimit - 1}}

\* the records of a page asked at offset o that holds n of them, named by their
\* position in the listing of the source
Page(o, n) == [p \in 1..n |-> o + p]

InitPages ==
    /\ pc = "Listing"
    /\ cfg \in DefaultConfigs
    /\ source = <<>>
    /\ offset = 0
    /\ issues = <<>>
    /\ detailedIssues = <<>>
    /\ i = 0
    /\ k = 1
    /\ r = 1
    /\ j = 1
    /\ issueIdMap = <<>>
    /\ nextAdoId = 501
    /\ persisted = <<>>
    /\ failure = "none"
    /\ log = <<>>
    /\ out = <<>>
    /\ batchSize = 0
    /\ inFlight = {}
    /\ settled = <<>>
    /\ results = <<>>

\* hasMore after a page of n records that brought the list to fetched records
HasMore(n, fetched, total) == ~(n < PageLimit \/ fetched >= total)

\* one pass of `while (hasMore)`: the page at params.offset; in the log entry
\* from is the offset, to the length of the page and id its total_count
FetchPage ==
    /\ pc = "Listing"
    /\ \/ \E n \in PageLengths, total \in Totals :
            LET allIssues == issues \o Page(offset, n)
                lg == Append(log, Entry("getIssuesPage", 0, 0, total, offset, n, "",
                                        FALSE, TRUE))
            IN /\ issues' = allIssues
               /\ IF HasMore(n, Len(allIssues), total)
                  THEN /\ offset' = offset + PageLimit
                       /\ log' = Append(lg, Entry("delay", 0, 0, 0, 0, RedmineDelay(100), "",
                                                   FALSE, TRUE))
                       /\ pc' = "Listing"
                  ELSE /\ offset' = offset
                       /\ log' = lg
                       /\ pc' = "Listed"
       \/ /\ log' = Append(log, Entry("getIssuesPage", 0, 0, 0, offset, 0, "", FALSE, FALSE))
          /\ pc' = "Listed"
          /\ UNCHANGED <<offset, issues>>
    /\ UNCHANGED <<batchSize, inFlight, settled, results, out, cfg, source, detailedIssues, i, k, r, j, issueIdMap, nextAdoId,
                   persisted, failure>>

NextPages == FetchPage

SpecPages == InitPages /\ [][NextPages]_vars

\* ------------------------------------------------------------- createLink alone
LinkKinds == {HierarchyReverse, "System.LinkTypes.Related",
              "System.LinkTypes.Dependency-Forward"}

InitLink ==
    /\ pc = "Linking"
    /\ cfg \in DefaultConfigs
    /\ source = <<>>
    /\ offset = 0
    /\ issues = <<>>
    /\ detailedIssues = <<>>
    /\ i = 0
    /\ k = 1
    /\ r = 1
    /\ j = 1
    /\ issueIdMap = <<>>
    /\ nextAdoId = 501
    /\ persisted = <<>>
    /\ failure = "none"
    /\ log = <<>>
    /\ out = <<>>
    /\ batchSize = 0
    /\ inFlight = {}
    /\ settled = <<>>
    /\ results = <<>>

\* createLink(sourceWorkItemId, targetWorkItemId, linkType, comment) on any ids
CallCreateLink ==
    /\ pc = "Linking"
    /\ Len(log) < MaxCalls
    /\ \E from \in 501..(500 + MaxId), to \in 501..(500 + MaxId), kind \in LinkKinds,
          netOk \in BOOLEAN :
          LET res == CreateLink(from, to, netOk)
          IN /\ res.sent \/ ~netOk
             /\ log' = Append(log, Entry("createLink", 0, 0, 0, from, to, kind,
                                         res.sent, res.ok))
    /\ UNCHANGED <<batchSize, inFlight, settled, results, pc, out, offset, cfg, source, issues, detailedIssues, i, k, r, j,
                   issueIdMap, nextAdoId, persisted, failure>>

NextLink == CallCreateLink

SpecLink == InitLink /\ [][NextLink]_vars

\* ------------------------------------------------------------- reading the log
LogIdx == 1..Len(log)
Creates == {a \in LogIdx : log[a].op = "createWorkItem"}
Created == {a \in Creates : log[a].ok}
LinkCalls == {a \in LogIdx : log[a].op = "createLink"}
ExtraOps == {"formatJournalAsComment", "addComment", "getAttachmentContent",
             "uploadAttachment", "attachFileToWorkItem"}
ExtraCalls == {a \in LogIdx : log[a].op \in ExtraOps}

\* migrateRelations has returned
RelationsOver == pc \in {"Persisting", "Done"} \/ failure = "writeFileSync"

\* the endpoint of a relation that is not the record it is listed on
OtherEndpoint(issue, relation) ==
    IF relation.issue_id = issue.id THEN relation.issue_to_id ELSE relation.issue_id

\* ------------------------------------------------------------- claims

\* C1: no createLink call is issued before createWorkItem has been attempted for
\* every detailed record: each link call comes after all the create calls, and
\* there is one create call per detailed record by then.
C1_LinksAfterAllNodes ==
    \A a \in LinkCalls :
        /\ \A b \in Creates : b < a
        /\ \A idx \in 1..N : \E b \in Creates : log[b].idx = idx
        /\ Cardinality(Creates) = N

C1_Witness ==
    /\ N = MaxIssues + 1
    /\ cfg.batch_size = 1
    /\ \E a \in LinkCalls : log[a].ok

\* a successful create has put source id -> t into the identity map by the time
\* the comments or attachments of the record are migrated
C2_MapBeforeExtras ==
    pc \in {"MigratingComments", "MigratingAttachments"} =>
        \E c \in Created :
            /\ \A b \in Creates : b <= c
            /\ log[c].idx = i + k
            /\ MapGet(issueIdMap, Cur.id) = log[c].to

\* comment and attachment calls are made for created records only, on their target
C2_ExtrasOnlyWhenCreated ==
    \A e \in ExtraCalls :
        \E c \in Created :
            c < e /\ log[c].idx = log[e].idx /\ log[e].from = log[c].to

\* the identity map holds what successful creates put there and nothing else
C2_FailureLeavesMap ==
    /\ DOMAIN issueIdMap = {log[c].id : c \in Created}
    /\ \A id \in DOMAIN issueIdMap :
          \E c \in Created : log[c].id = id /\ log[c].to = issueIdMap[id]

\* C2 (as stated): a successful create puts source id -> t into the identity map
\* before any comment or attachment call of the record; a failed create leaves the
\* map alone, is followed by no comment or attachment call for the record, and
\* the relation phase creates no link from the record or to it.
C2_Original ==
    /\ C2_MapBeforeExtras
    /\ C2_ExtrasOnlyWhenCreated
    /\ C2_FailureLeavesMap
    /\ \A c \in Creates \ Created :
          \A e \in LinkCalls :
              log[e].ok => /\ log[e].idx # log[c].idx
                           /\ log[e].to # MapGet(issueIdMap, log[c].id)

\* C2 (amended): the same, the last part holding for a record none of whose
\* namesakes in the listing was created: then no createLink call is made for
\* it, and every link runs between the targets of created records.
C2_CreateGatesEverything ==
    /\ C2_MapBeforeExtras
    /\ C2_ExtrasOnlyWhenCreated
    /\ C2_FailureLeavesMap
    /\ \A c \in Creates \ Created :
          log[c].id \notin DOMAIN issueIdMap =>
              \A e \in LinkCalls : log[e].idx # log[c].idx /\ log[e].id # log[c].id
    /\ \A e \in LinkCalls :
          /\ log[e].from = MapGet(issueIdMap, log[e].id)
          /\ \E id \in DOMAIN issueIdMap : issueIdMap[id] = log[e].to

C2_Witness ==
    /\ pc = "Done"
    /\ \E c \in Creates \ Created :
          /\ log[c].id \notin DOMAIN issueIdMap
          /\ detailedIssues[log[c].idx].parent \in DOMAIN issueIdMap
          /\ Len(detailedIssues[log[c].idx].journals) > 0
    /\ \E e \in ExtraCalls : log[e].op = "addComment"

\* C3 (as stated): each source id is inserted into the identity map at most once,
\* and a present id keeps the target id it was inserted with.
C3_Original ==
    /\ \A a \in Created : \A b \in Created : log[a].id = log[b].id => a = b
    /\ \A id \in DOMAIN issueIdMap :
          \A c \in Created :
              (log[c].id = id /\ \A b \in Created : log[b].id = id => c <= b)
                  => issueIdMap[id] = log[c].to

\* C4 (as stated): an insert of a present source id fails with DuplicateKey and
\* halts the run in Failed, the entry kept and no later record attempted.
C4_Original ==
    \A c \in Created :
        (\E b \in Created : b < c /\ log[b].id = log[c].id) =>
            /\ pc = "Failed"
            /\ failure = "DuplicateKey"
            /\ \A b \in Created :
                  (b < c /\ log[b].id = log[c].id) => issueIdMap[log[c].id] = log[b].to
            /\ \A d \in Creates : d <= c

\* C5: when the successful creates have pairwise distinct source ids, a lookup of
\* an inserted id gives the target id its create returned (also the lookups of
\* the relation phase), and a lookup of an id never inserted gives absent.
C5_LookupGivesCreated ==
    (\A a \in Created : \A b \in Created : log[a].id = log[b].id => a = b) =>
        /\ \A c \in Created : MapGet(issueIdMap, log[c].id) = log[c].to
        /\ \A id \in 1..MaxId :
              (\A c \in Created : log[c].id # id) => MapGet(issueIdMap, id) = 0
        /\ \A e \in LinkCalls :
              \E c \in Created : log[c].id = log[e].id /\ log[c].to = log[e].from

C5_Witness ==
    /\ pc = "Done"
    /\ MapGet(issueIdMap, 1) = 501
    /\ \E a \in Created : \E b \in Created : log[a].id # log[b].id
    /\ \E id \in 1..MaxId : MapGet(issueIdMap, id) = 0
    /\ \E e \in LinkCalls : log[e].ok

\* C6 (as stated): a relation or parent reference whose other endpoint is absent
\* from the identity map produces no createLink call and no error.
C6_Original ==
    /\ \A e \in LinkCalls :
          LET issue == detailedIssues[log[e].idx]
          IN IF log[e].sub = 0
             THEN issue.parent \in DOMAIN issueIdMap
             ELSE OtherEndpoint(issue, issue.relations[log[e].sub]) \in DOMAIN issueIdMap
    /\ pc \in {"ResolvingParent", "ResolvingRelations"} => failure = "none"

\* the relation phase is past the hierarchy step of record x
PastParent(x) ==
    \/ pc = "ResolvingRelations" /\ r >= x
    \/ pc = "ResolvingParent" /\ r > x
    \/ RelationsOver /\ x <= N

\* the hierarchy-link calls made for record x
HierarchyCalls(x) == {e \in LinkCalls : log[e].idx = x /\ log[e].sub = 0}

\* C7 (as stated): for each relation listed on a record, the endpoint looked up in
\* the identity map is the one that is not the record itself, and when it is
\* mapped a link of the mapped kind is created from the record's target to it.
C7_Original ==
    /\ \A e \in LinkCalls :
          log[e].sub > 0 =>
              LET issue == detailedIssues[log[e].idx]
              IN log[e].to = MapGet(issueIdMap,
                                    OtherEndpoint(issue, issue.relations[log[e].sub]))
    /\ RelationsOver =>
          \A x \in 1..N :
              \A y \in 1..Len(detailedIssues[x].relations) :
                  LET issue == detailedIssues[x]
                      other == OtherEndpoint(issue, issue.relations[y])
                  IN (issue.id \in DOMAIN issueIdMap /\ other \in DOMAIN issueIdMap) =>
                        \E e \in LinkCalls :
                            /\ log[e].idx = x /\ log[e].sub = y
                            /\ log[e].from = issueIdMap[issue.id]
                            /\ log[e].to = issueIdMap[other]
                            /\ log[e].kind =
                                  MapRelationType(cfg, issue.relations[y].relation_type)

C9_NoSelfLink ==
    \A e \in LinkCalls : log[e].from = log[e].to => ~log[e].sent /\ ~log[e].ok

C9_Witness ==
    \E e \in LinkCalls :
        log[e].from = log[e].to /\ log[e].kind = HierarchyReverse

\* C10 (as stated): no per-record failure halts the run: it is never what stops
\* the run, and once the relation phase is over every detailed record has had
\* its create attempted.
C10_Original ==
    /\ failure \notin {"formatJournalAsComment"}
    /\ pc = "Failed" => \E e \in LogIdx : log[e].op = "writeFileSync"
    /\ RelationsOver => Cardinality(Creates) = N

\* the calls of migrateAttachments for attachment s of record x
Downloaded(x, s) ==
    {e \in LogIdx : log[e].op = "getAttachmentContent" /\ log[e].idx = x /\ log[e].sub = s}
Uploaded(x, s) ==
    {e \in LogIdx : log[e].op = "uploadAttachment" /\ log[e].idx = x /\ log[e].sub = s}
Attached(x, s) ==
    {e \in LogIdx : log[e].op = "attachFileToWorkItem" /\ log[e].idx = x /\ log[e].sub = s}

\* migrateAttachments has been called for record x and has returned
AttachmentsOver(x) ==
    /\ Downloaded(x, 1) # {}
    /\ ~(pc = "MigratingAttachments" /\ i + k = x)

\* whatever happened to the attachments before it, attachment s of record x is
\* downloaded once, after them, and all of them are by the end of the loop
C11_LaterStillAttempted ==
    \A x \in 1..N :
        LET m == Len(detailedIssues[x].attachments)
        IN /\ \A s \in 1..m :
                 /\ Cardinality(Downloaded(x, s)) <= 1
                 /\ \A e \in Downloaded(x, s) :
                       \A t \in 1..(s - 1) : \E d \in Downloaded(x, t) : d < e
           /\ AttachmentsOver(x) => \A s \in 1..m : Downloaded(x, s) # {}

\* an attachment is linked to the work item only after its upload succeeded
C11_FailedUploadNeverLinked ==
    \A x \in 1..N :
        \A s \in 1..Len(detailedIssues[x].attachments) :
            \A e \in Attached(x, s) : \E u \in Uploaded(x, s) : u < e /\ log[u].ok

\* C11 (as stated): in migrateAttachments a failure on one attachment is
\* contained: every later attachment of the record is still attempted, in list
\* order; an attachment whose download is empty or absent is never uploaded; an
\* attachment whose upload failed is never linked to the work item.
C11_Original ==
    /\ C11_LaterStillAttempted
    /\ C11_FailedUploadNeverLinked
    /\ \A x \in 1..N :
          \A s \in 1..Len(detailedIssues[x].attachments) :
              \A e \in Uploaded(x, s) :
                  \E d \in Downloaded(x, s) : d < e /\ log[d].kind = "content"

\* C12 (as stated): an error on a page fetch of the record list is fatal: the run
\* halts in Failed, creates no node, and does not end as a normal completion.
C12_Original ==
    \A e \in LogIdx :
        (log[e].op = "getAllIssues" /\ ~log[e].ok) =>
            /\ pc = "Failed"
            /\ failure # "none"
            /\ Creates = {}

\* a run that is in Done has written the mapping file, with the identity map as
\* it was when migrateRelations returned
C13_DonePersisted ==
    pc = "Done" =>
        /\ \E e \in LogIdx : log[e].op = "writeFileSync" /\ log[e].ok
        /\ persisted = <<issueIdMap>>

\* the written mapping has one pair per created work item, and no other pair
C13_OnePairPerNode ==
    persisted # <<>> =>
        /\ \A c \in Created : MapGet(persisted[1], log[c].id) = log[c].to
        /\ Cardinality(DOMAIN persisted[1]) = Cardinality(Created)
        /\ \A id \in DOMAIN persisted[1] : \E c \in Created : log[c].id = id

\* C13 (as stated): every run that reaches Done has passed through Persisting,
\* and the persisted mapping is the identity map of the end of the relation
\* phase: one pair per created work item, none for a failed or unfetched record.
C13_Original == C13_DonePersisted /\ C13_OnePairPerNode

\* the addComment calls made for journal entry s of record x
Commented(x, s) ==
    {e \in LogIdx : log[e].op = "addComment" /\ log[e].idx = x /\ log[e].sub = s}

\* record x was created and the run is no longer inside its migrateComments
CommentsOver(x) ==
    /\ \E c \in Created : log[c].idx = x
    /\ ~(pc = "MigratingComments" /\ i + k = x)

\* addComment is called at most once per journal entry, after the calls for the
\* entries before it, also when some of those calls failed
C14_InOrderOnce ==
    \A x \in 1..N :
        \A s \in 1..Len(detailedIssues[x].journals) :
            /\ Cardinality(Commented(x, s)) <= 1
            /\ \A e \in Commented(x, s) :
                  \A t \in 1..(s - 1) : \E d \in Commented(x, t) : d < e

\* C14 (as stated): for every created record, with comment migration enabled,
\* there is one addComment call per journal entry, in the order of the journal
\* list; a failed call does not reorder, repeat or drop the later entries.
C14_Original ==
    /\ C14_InOrderOnce
    /\ \A x \in 1..N :
          (ShouldMigrateComments(cfg) /\ CommentsOver(x)) =>
              \A s \in 1..Len(detailedIssues[x].journals) : Commented(x, s) # {}

\* the typed relation link calls
RelationCalls == {e \in LinkCalls : log[e].sub > 0}

\* C15: the four migration options act independently: with migrate_comments
\* false no addComment call is made, with migrate_attachments false no download,
\* upload or attach call, with migrate_relations false no typed relation link
\* call, with migrate_subtasks false no hierarchy link call, whatever the other
\* three say; an option that is absent (or true) is enabled: by the end of the
\* run the calls it governs have been made for every created record.
C15_TogglesIndependent ==
    /\ cfg.migrate_comments = "false" =>
          \A e \in LogIdx : log[e].op \notin {"formatJournalAsComment", "addComment"}
    /\ cfg.migrate_attachments = "false" =>
          \A e \in LogIdx :
              log[e].op \notin {"getAttachmentContent", "uploadAttachment",
                                "attachFileToWorkItem"}
    /\ cfg.migrate_relations = "false" => RelationCalls = {}
    /\ cfg.migrate_subtasks = "false" => LinkCalls \ RelationCalls = {}
    /\ RelationsOver =>
          \A x \in 1..N :
              LET issue == detailedIssues[x]
              IN /\ (cfg.migrate_comments # "false" /\ \E c \in Created : log[c].idx = x) =>
                        \A s \in 1..Len(issue.journals) : Commented(x, s) # {}
                 /\ (cfg.migrate_attachments # "false" /\ \E c \in Created : log[c].idx = x) =>
                        \A s \in 1..Len(issue.attachments) : Downloaded(x, s) # {}
                 /\ (/\ cfg.migrate_relations # "false"
                     /\ issue.id \in DOMAIN issueIdMap) =>
                        \A y \in 1..Len(issue.relations) :
                            TargetRedmineId(issue.relations[y]) \in DOMAIN issueIdMap =>
                                \E e \in RelationCalls : log[e].idx = x /\ log[e].sub = y
                 /\ (/\ cfg.migrate_subtasks # "false"
                     /\ issue.id \in DOMAIN issueIdMap
                     /\ issue.parent \in DOMAIN issueIdMap) => HierarchyCalls(x) # {}

\* comments and relations switched off, attachments and hierarchy left out of
\* the configuration: the attachment is migrated and the child linked to its parent
C15_Witness ==
    /\ pc = "Done"
    /\ cfg.migrate_comments = "false" /\ cfg.migrate_relations = "false"
    /\ cfg.migrate_attachments = "absent" /\ cfg.migrate_subtasks = "absent"
    /\ Cardinality(Created) = 2
    /\ \E e \in Attached(1, 1) : log[e].ok
    /\ \E e \in HierarchyCalls(2) : log[e].ok
    /\ Len(detailedIssues[1].journals) > 0 /\ Len(detailedIssues[2].relations) > 0

\* C16: for every batch size, createWorkItem is called once per detailed record,
\* in the order of the list, and the comment and attachment calls of a record
\* all lie between its create and the create of the next record.
C16_CreatesInFetchOrder ==
    /\ \A c \in Creates :
          /\ log[c].idx = Cardinality({b \in Creates : b <= c})
          /\ log[c].id = detailedIssues[log[c].idx].id
    /\ \A e \in ExtraCalls :
          \A c \in Creates :
              IF log[c].idx <= log[e].idx THEN c < e ELSE e < c
    /\ RelationsOver => Cardinality(Creates) = N

\* three records in batches of two: the second batch starts after the comment
\* of the second record
C16_Witness ==
    /\ pc = "Done"
    /\ cfg.batch_size = 2
    /\ N = 3
    /\ Cardinality(Created) = 3
    /\ detailedIssues[1].id # detailedIssues[3].id
    /\ \E e \in ExtraCalls : log[e].idx = 2 /\ log[e].op = "addComment"

\* C17: the createLink calls of the relation phase are made record by record in
\* the order of the list, for each record the hierarchy link first and then the
\* relations in the order they are listed on it; each call is the one for its
\* place, and a failed call changes nothing for the later ones, which are all
\* made by the end of the phase.
C17_LinksInOrder ==
    /\ \A a \in LinkCalls :
          \A b \in LinkCalls :
              a < b => \/ log[a].idx < log[b].idx
                       \/ log[a].idx = log[b].idx /\ log[a].sub < log[b].sub
    /\ \A e \in LinkCalls :
          LET issue == detailedIssues[log[e].idx]
          IN /\ log[e].id = issue.id
             /\ log[e].from = MapGet(issueIdMap, issue.id)
             /\ IF log[e].sub = 0
                THEN /\ log[e].kind = HierarchyReverse
                     /\ log[e].to = MapGet(issueIdMap, issue.parent)
                ELSE /\ log[e].sub <= Len(issue.relations)
                     /\ log[e].kind =
                           MapRelationType(cfg, issue.relations[log[e].sub].relation_type)
                     /\ log[e].to =
                           MapGet(issueIdMap, TargetRedmineId(issue.relations[log[e].sub]))
    /\ RelationsOver =>
          \A x \in 1..N :
              LET issue == detailedIssues[x]
              IN issue.id \in DOMAIN issueIdMap =>
                    /\ issue.parent \in DOMAIN issueIdMap => HierarchyCalls(x) # {}
                    /\ \A y \in 1..Len(issue.relations) :
                          TargetRedmineId(issue.relations[y]) \in DOMAIN issueIdMap =>
                              \E e \in RelationCalls : log[e].idx = x /\ log[e].sub = y

\* a relation link of the first record that fails, then the hierarchy link and
\* a relation link of the second record
C17_Witness ==
    /\ pc = "Done"
    /\ \E a \in RelationCalls :
          /\ log[a].idx = 1 /\ log[a].sent /\ ~log[a].ok
          /\ \E b \in HierarchyCalls(2) :
                /\ a < b
                /\ \E c \in RelationCalls : log[c].idx = 2 /\ b < c /\ log[c].ok

\* the page requests of getAllIssues, and the n-th entry of the log among them
PageCalls == {e \in LogIdx : log[e].op = "getIssuesPage"}
PageNo(e) == Cardinality({a \in PageCalls : a <= e})

\* the records of the pages fetched up to log entry e, in fetch order
RECURSIVE PagesUpTo(_)
PagesUpTo(e) ==
    IF e = 0 THEN <<>>
    ELSE IF log[e].op = "getIssuesPage" /\ log[e].ok
         THEN PagesUpTo(e - 1) \o Page(log[e].from, log[e].to)
         ELSE PagesUpTo(e - 1)

\* the requests ask for offsets 0, 100, 200, ..., with a delay between two
\* consecutive ones; the list is the pages fetched, in order; a request follows
\* only a full page that left the list below the total it reported, so a source
\* whose totals are at most MaxPages * PageLimit is asked at most MaxPages times
C18_PagesInOrder ==
    /\ \A e \in PageCalls : log[e].from = PageLimit * (PageNo(e) - 1)
    /\ \A e \in PageCalls :
          PageNo(e) > 1 =>
              /\ log[e - 1].op = "delay" /\ log[e - 1].to > 0
              /\ log[e - 2].op = "getIssuesPage" /\ log[e - 2].ok
              /\ log[e - 2].to = PageLimit
              /\ Len(PagesUpTo(e - 2)) < log[e - 2].id
    /\ issues = PagesUpTo(Len(log))
    /\ Cardinality(PageCalls) <= MaxPages
    /\ pc = "Listing" => (log = <<>> \/ log[Len(log)].op = "delay")

\* the listing is over only after a page shorter than the limit or a page that
\* brought the list to the total it reported
C18_StopsExactlyWhen ==
    pc = "Listed" =>
        LET last == log[Len(log)]
        IN /\ last.op = "getIssuesPage"
           /\ last.ok
           /\ last.to < PageLimit \/ Len(issues) >= last.id

\* C18 (as stated): getAllIssues stops exactly when a page holds fewer records
\* than the page size (100) or the list has reached the reported total; it asks
\* for the offsets 0, 100, 200, ... with a delay between consecutive requests;
\* for a source that reports a finite total it terminates and returns all the
\* pages fetched, in order.
C18_Original == C18_PagesInOrder /\ C18_StopsExactlyWhen

\* the delay(fieldMapper.getDelayMs()) calls of the run
Paces == {e \in LogIdx : log[e].op = "delay"}

\* C19: getDelayMs is never zero: it is the default 100 when delay_ms is missing
\* or 0 and the configured value otherwise, so every delay of the run waits for
\* a strictly positive time.
C19_DelayNeverZero ==
    /\ GetDelayMs(cfg) > 0
    /\ cfg.delay_ms = 0 => GetDelayMs(cfg) = 100
    /\ cfg.delay_ms > 0 => GetDelayMs(cfg) = cfg.delay_ms
    /\ \A e \in Paces :
          /\ log[e].to > 0
          /\ log[e].to = IF cfg.delay_ms = 0 THEN 100 ELSE cfg.delay_ms

\* a finished run without delay_ms that waited 100 after a create and after a link
C19_Witness ==
    /\ pc = "Done"
    /\ cfg.delay_ms = 0
    /\ \E e \in Paces : e > 1 /\ log[e].to = 100 /\ log[e - 1].op = "createWorkItem"
    /\ \E e \in Paces : e > 1 /\ log[e].to = 100 /\ log[e - 1].op = "createLink"

\* the calls that sent a write to the target: create, comment, upload, attach, link
Writes == {e \in LogIdx : log[e].sent}

\* C20 (as stated): between any two consecutive writes to the target a delay is
\* completed, also after a write that failed.
C20_Original ==
    \A a \in Writes :
        \A b \in Writes :
            a < b => \E d \in Paces : a < d /\ d < b

\* C21: the identity map is written only by migrateIssue after a create: the
\* listing, the detail fetches, the comments and attachments, the whole relation
\* phase (failed and skipped links included) and the writing of the mapping file
\* leave it as it is.
C21_MapWrittenOnlyByCreate ==
    [][issueIdMap' # issueIdMap =>
          /\ pc = "CreatingNodes"
          /\ Len(log') > Len(log)
          /\ log'[Len(log) + 1].op = "createWorkItem"
          /\ log'[Len(log) + 1].ok]_vars

\* a finished run with comments, a link that failed and a relation that was
\* skipped, the map holding the two created records
C21_Witness ==
    /\ pc = "Done"
    /\ DOMAIN issueIdMap = {1, 2}
    /\ \E e \in LinkCalls : log[e].sent /\ ~log[e].ok
    /\ \E e \in LinkCalls : ~log[e].sent
    /\ \E e \in ExtraCalls : log[e].op = "addComment"

\* what the run reports once migrateRelations has returned: the line
\* `Total issues migrated: ${issueIdMap.size}`, and nothing else in numbers
Report == [migrated |-> Cardinality(DOMAIN issueIdMap)]

\* the counts an end-of-run report needs besides the created nodes
C22_OutcomeCounts ==
    {"nodes_failed", "comments_created", "comments_failed", "attachments_created",
     "attachments_failed", "links_created", "links_failed"}

\* the reported number of migrated issues is the number of successful creates
C22_ReportedIsCreated == RelationsOver => Report.migrated = Cardinality(Created)

\* C22 (as stated): at the end of a full-batch run the reported number of
\* created nodes is the number of create calls that succeeded, and the failed
\* or skipped nodes, the comments, the attachments and the links are each
\* counted and reported.
C22_Original ==
    /\ C22_ReportedIsCreated
    /\ RelationsOver => C22_OutcomeCounts \subseteq DOMAIN Report

\* C23: an exception nobody catches ends the run at once with exit status 1:
\* the call that threw is the last call of the run, no step follows it, and the
\* mapping file is not written.
C23_FatalAbortsAtOnce ==
    /\ [](failure # "none" =>
            /\ pc = "Failed"
            /\ persisted = <<>>
            /\ log # <<>>
            /\ log[Len(log)].op = failure
            /\ ~log[Len(log)].ok)
    /\ [](pc = "Failed" => failure # "none")
    /\ [][failure = "none" /\ pc # "Failed"]_vars

\* the journal of the first of two records, parent of the second, cannot be
\* formatted: the run stops there, before the second create and before any link
C23_Witness ==
    /\ pc = "Failed"
    /\ failure = "formatJournalAsComment"
    /\ N = 2
    /\ Cardinality(Creates) = 1
    /\ issueIdMap # <<>>
    /\ detailedIssues[2].parent = detailedIssues[1].id

\* C24: mapStatus follows the order specific -> default -> built-in: the entry of
\* the table of the work item type when that table maps the status; otherwise
\* the entry of the default table when it maps the status; otherwise "New".
C24_StatusFallbackOrder ==
    \A n \in 1..Len(out) :
        LET call == out[n]
            tables == cfg.status_mappings
            specific == call.type \in DOMAIN tables /\ call.status \in DOMAIN tables[call.type]
            default == "default" \in DOMAIN tables /\ call.status \in DOMAIN tables["default"]
        IN /\ specific => call.returned = tables[call.type][call.status]
           /\ (~specific /\ default) => call.returned = tables["default"][call.status]
           /\ (~specific /\ ~default) => call.returned = "New"

\* a status the table of Bug leaves out and the default table maps, next to one
\* that both tables map differently
C24_Witness ==
    /\ Len(out) = 2
    /\ DOMAIN cfg.status_mappings = {"Bug", "default"}
    /\ DOMAIN cfg.status_mappings["Bug"] = {"Open"}
    /\ cfg.status_mappings["Bug"]["Open"] = "Active"
    /\ cfg.status_mappings["default"] = [s \in Statuses |-> "Closed"]
    /\ out[1] = [status |-> "Resolved", type |-> "Bug", returned |-> "Closed"]
    /\ out[2] = [status |-> "Open", type |-> "Bug", returned |-> "Active"]

\* the dates and the assignee name of an issue, and the target field of each
C25_TextFields ==
    {<<"assigned_to", "System.AssignedTo">>,
     <<"start_date", "Microsoft.VSTS.Scheduling.StartDate">>,
     <<"due_date", "Microsoft.VSTS.Scheduling.DueDate">>,
     <<"created_on", "System.CreatedDate">>,
     <<"updated_on", "System.ChangedDate">>,
     <<"closed_on", "Microsoft.VSTS.Common.ClosedDate">>}

\* the dates, the assignee name and the completion ratio are emitted exactly
\* when they are present, and unchanged (a completion ratio of 0 included)
C25_DatesAssigneeRatio ==
    \A n \in 1..Len(out) :
        LET issue == out[n].issue
            fields == out[n].returned.fields
        IN /\ \A f \in C25_TextFields :
                 /\ f[2] \in DOMAIN fields <=> issue[f[1]] # ""
                 /\ f[2] \in DOMAIN fields => fields[f[2]] = issue[f[1]]
           /\ "Microsoft.VSTS.Scheduling.CompletedWork" \in DOMAIN fields
                 <=> issue.done_ratio # -1
           /\ issue.done_ratio # -1 =>
                 fields["Microsoft.VSTS.Scheduling.CompletedWork"] = issue.done_ratio

\* C25 (as stated): each scalar field (title, the five dates, estimate,
\* completion ratio, assignee name) is in the target field set if and only if
\* the source value is present, and then unchanged, a 0 estimate and a 0
\* completion ratio included.
C25_Original ==
    /\ C25_DatesAssigneeRatio
    /\ \A n \in 1..Len(out) :
          LET issue == out[n].issue
              fields == out[n].returned.fields
          IN /\ "System.Title" \in DOMAIN fields <=> issue.subject # ""
             /\ issue.subject # "" => fields["System.Title"] = issue.subject
             /\ "Microsoft.VSTS.Scheduling.OriginalEstimate" \in DOMAIN fields
                   <=> issue.estimated_hours # -1
             /\ issue.estimated_hours # -1 =>
                   fields["Microsoft.VSTS.Scheduling.OriginalEstimate"] = issue.estimated_hours

DetailCalls == {e \in LogIdx : log[e].op = "getIssueDetails"}
Fetched == {log[e].idx : e \in {d \in DetailCalls : log[d].ok}}

\* the detail loop is over
DetailsOver == pc \notin {"Idle", "FetchingDetails"} /\ issues # <<>>

\* the detail fetch of every listed record is attempted, whatever the others
\* gave, and the detailed list is the fetched records, in listing order, each
\* of which gets its create call
C27_OthersUnaffected ==
    /\ \A e \in DetailCalls : log[e].idx = Cardinality({d \in DetailCalls : d <= e})
    /\ DetailsOver =>
          /\ {log[e].idx : e \in DetailCalls} = 1..Len(issues)
          /\ N = Cardinality(Fetched)
          /\ \A x \in 1..Len(issues) :
                x \in Fetched =>
                    detailedIssues[Cardinality({y \in Fetched : y <= x})] = issues[x]
    /\ \A c \in Creates : \E x \in Fetched : issues[x] = detailedIssues[log[c].idx]
    /\ (RelationsOver /\ issues # <<>>) => Cardinality(Creates) = N

\* no create, no map entry and no link for the source id of listed record x
C27_LeftOut(x) ==
    /\ \A c \in Creates : log[c].id # issues[x].id
    /\ issues[x].id \notin DOMAIN issueIdMap
    /\ \A e \in LinkCalls :
          /\ log[e].id # issues[x].id
          /\ log[e].to # MapGet(issueIdMap, issues[x].id)

\* C27 (as stated): a listed record whose detail fetch gives nothing is left out:
\* no node is created for it, the identity map has no entry for it, relations
\* pointing at it are dropped, and the other records are fetched and migrated
\* all the same.
C27_Original ==
    /\ C27_OthersUnaffected
    /\ \A e \in DetailCalls : ~log[e].ok => C27_LeftOut(log[e].idx)

\* C27 (amended): the same, for a listed record none of whose namesakes in the
\* listing had its details fetched.
C27_SoftSkip ==
    /\ C27_OthersUnaffected
    /\ \A e \in DetailCalls :
          (~log[e].ok /\ \A x \in Fetched : issues[x].id # log[e].id) =>
              C27_LeftOut(log[e].idx)

\* three records listed, the details of the second absent, the third its child
C27_Witness ==
    /\ pc = "Done"
    /\ Len(issues) = 3
    /\ Fetched = {1, 3}
    /\ DOMAIN issueIdMap = {issues[1].id, issues[3].id}
    /\ issues[2].id \notin DOMAIN issueIdMap
    /\ issues[3].parent = issues[2].id

\* the processor calls started, and the calls settled, in the log
Starts == {e \in LogIdx : log[e].op = "processor"}
Settles == {e \in LogIdx : log[e].op = "settled"}

\* the batch issue x belongs to, counted from 0
BatchOf(x) == (x - 1) \div batchSize

\* at most batchSize calls are in flight; a call starts only after every call of
\* the batches before its own has resolved; no issue is handed to the processor
\* twice; the results so far are the values of the first issues, in input order
C28_BoundedBatches ==
    /\ Cardinality(inFlight) <= batchSize
    /\ \A e \in Starts :
          \A y \in 1..Len(issues) :
              BatchOf(y) < BatchOf(log[e].idx) =>
                  \E d \in Settles : d < e /\ log[d].idx = y /\ log[d].ok
    /\ \A a \in Starts : \A b \in Starts : log[a].idx = log[b].idx => a = b
    /\ Len(results) <= Len(issues)
    /\ \A n \in 1..Len(results) :
          \E d \in Settles : log[d].idx = n /\ log[d].ok /\ log[d].to = results[n]

\* every issue has been handed to the processor and has its place in the results
C28_AllProcessed ==
    /\ \A x \in 1..Len(issues) : \E e \in Starts : log[e].idx = x
    /\ Len(results) = Len(issues)

PlacesOf(x, rel) ==
    {s \in 1..Len(detailedIssues[x].relations) : detailedIssues[x].relations[s] = rel}

\* the createLink calls made for relation rel, on whichever record it is listed
CallsFor(rel) ==
    {e \in RelationCalls : detailedIssues[log[e].idx].relations[log[e].sub] = rel}

\* C29: a relation (issue_id = A, issue_to_id = B, A # B) listed once on record
\* A and once on record B, both created and each detailed once, relation
\* migration enabled: by the end of the relation phase the occurrence on A has
\* been resolved to A itself and rejected as a self-link, nothing being sent,
\* and the occurrence on B has sent the one link request of the run for the
\* relation, from B's target to A's target.
C29_OneLinkPerSharedRelation ==
    (RelationsOver /\ ShouldMigrateRelations(cfg)) =>
        \A x \in 1..N :
            \A y \in 1..N :
                \A rel \in {detailedIssues[x].relations[s] :
                               s \in 1..Len(detailedIssues[x].relations)} :
                    LET A == detailedIssues[x].id
                        B == detailedIssues[y].id
                    IN (/\ A # B
                        /\ rel.issue_id = A /\ rel.issue_to_id = B
                        /\ Cardinality(PlacesOf(x, rel)) = 1
                        /\ Cardinality(PlacesOf(y, rel)) = 1
                        /\ \A z \in 1..N : detailedIssues[z].id \in {A, B} => z \in {x, y}
                        /\ A \in DOMAIN issueIdMap /\ B \in DOMAIN issueIdMap) =>
                           /\ Cardinality(CallsFor(rel)) = 2
                           /\ \A e \in CallsFor(rel) :
                                 IF log[e].idx = x
                                 THEN /\ log[e].from = issueIdMap[A]
                                      /\ log[e].to = issueIdMap[A]
                                      /\ ~log[e].sent /\ ~log[e].ok
                                 ELSE /\ log[e].idx = y
                                      /\ log[e].from = issueIdMap[B]
                                      /\ log[e].to = issueIdMap[A]
                                      /\ log[e].sent
                                      /\ log[e].kind = MapRelationType(cfg, rel.relation_type)

\* records 1 and 2 created as 501 and 502, "1 blocks 2" listed on both: a
\* rejected self-link of 501 and the link 502 -> 501
C29_Witness ==
    /\ pc = "Done"
    /\ N = 2
    /\ detailedIssues[1].id = 1 /\ detailedIssues[2].id = 2
    /\ detailedIssues[1].relations =
          <<[issue_id |-> 1, issue_to_id |-> 2, relation_type |-> "blocks"]>>
    /\ detailedIssues[2].relations = detailedIssues[1].relations
    /\ MapGet(issueIdMap, 1) = 501 /\ MapGet(issueIdMap, 2) = 502
    /\ \E e \in RelationCalls : log[e].from = 501 /\ log[e].to = 501 /\ ~log[e].sent
    /\ \E e \in RelationCalls : log[e].from = 502 /\ log[e].to = 501 /\ log[e].ok
    /\ Cardinality(LinkCalls) = 2

\* the migrateIssue calls for detailed record x, each seen by its createWorkItem
MigrateIssueCalls(x) == {c \in Creates : log[c].idx = x}

\* the run is past the batch loop, or has ended inside it
BatchLoopLeft ==
    /\ issues # <<>>
    /\ pc \notin {"Idle", "FetchingDetails", "CreatingNodes", "MigratingComments",
                  "MigratingAttachments"}

\* no record is handed to migrateIssue twice, and none before the one listed
\* ahead of it, whatever the batch size
C30_NoRepeatNoOvertake ==
    \A x \in 1..N :
        /\ Cardinality(MigrateIssueCalls(x)) <= 1
        /\ \A c \in MigrateIssueCalls(x) :
              \A y \in 1..(x - 1) : \E b \in MigrateIssueCalls(y) : b < c

\* C30 (as stated): for every batch size (absent or 0 meaning 50) the batch loop
\* ends having called migrateIssue exactly once for every detailed record,
\* skipping and repeating none.
C30_Original ==
    /\ C30_NoRepeatNoOvertake
    /\ BatchLoopLeft => \A x \in 1..N : Cardinality(MigrateIssueCalls(x)) = 1

====
